---------------------------- MODULE Spec2Model ----------------------------
(***************************************************************************)
(* A model of the saidify library (self-addressing identifiers).           *)
(*                                                                         *)
(* Texts are sequences of one-character strings.  Bytes are integers in    *)
(* 0..255.  A JavaScript number is a record [nan, n]: the library reaches  *)
(* NaN through parseInt, and NaN must stay distinct from every integer.    *)
(* A mapping (Dict) is a sequence of entries [k, v] with distinct keys:    *)
(* the insertion order of a JavaScript object.                             *)
(***************************************************************************)
EXTENDS Integers, Sequences, FiniteSets, TLC

(***************************************************************************)
(* Characters                                                              *)
(***************************************************************************)
UpperSeq == <<"A","B","C","D","E","F","G","H","I","J","K","L","M",
              "N","O","P","Q","R","S","T","U","V","W","X","Y","Z">>
LowerSeq == <<"a","b","c","d","e","f","g","h","i","j","k","l","m",
              "n","o","p","q","r","s","t","u","v","w","x","y","z">>
DigitSeq == <<"0","1","2","3","4","5","6","7","8","9">>
HexSeq   == <<"0","1","2","3","4","5","6","7","8","9","a","b","c","d","e","f">>

Range(s) == { s[i] : i \in DOMAIN s }

IndexOf(s, c) == CHOOSE i \in DOMAIN s : s[i] = c

\* printable ASCII from code 32 to code 126, as the UTF-8 encoder sees it
\* ("backslash" and "backtick" stand for the two characters no text here uses)
AsciiSeq ==
  <<" ","!","\"","#","$","%","&","'","(",")","*","+",",","-",".","/">>
  \o DigitSeq \o <<":",";","<","=",">","?","@">> \o UpperSeq
  \o <<"[","backslash","]","^","_","backtick">> \o LowerSeq \o <<"{","|","}","~">>

\* the code of each character, tabulated
OrdOf == [c \in Range(AsciiSeq) |-> 31 + IndexOf(AsciiSeq, c)]

Ord(c) == OrdOf[c]

RECURSIVE Pow(_, _)
Pow(b, e) == IF e = 0 THEN 1 ELSE b * Pow(b, e - 1)

Max(a, b) == IF a >= b THEN a ELSE b

\* F(v), with v evaluated once
Let(v, F(_)) == CHOOSE y \in { F(x) : x \in {v} } : TRUE

\* the n-fold repetition of c (empty for n <= 0)
Repeat(c, n) == [i \in 1..n |-> c]

\* String.prototype.padStart with a one-character filler
padStart(s, length, c) == Repeat(c, length - Len(s)) \o s

(***************************************************************************)
(* JavaScript numbers and 32-bit integer operators                         *)
(***************************************************************************)
N(n) == [nan |-> FALSE, n |-> n]
NaN  == [nan |-> TRUE, n |-> 0]

\* the number hi * 2^30 + lo, for the integers beyond 32 bits that a
\* JavaScript number holds exactly (0 <= lo < 2^30)
Wide(hi, lo) == [nan |-> FALSE, n |-> lo, hi |-> hi]

HiOf(i) == IF "hi" \in DOMAIN i THEN i.hi ELSE 0

\* bit k (0..31) of the two's-complement 32-bit integer x
Bit32(x, k) ==
  IF k = 31 THEN (IF x < 0 THEN 1 ELSE 0)
  ELSE LET r == IF x < 0 THEN (x + 2147483647) + 1 ELSE x
       IN  (r \div Pow(2, k)) % 2

RECURSIVE SumBits(_, _)
SumBits(b, k) == IF k < 0 THEN 0 ELSE b[k] * Pow(2, k) + SumBits(b, k - 1)

\* the signed 32-bit integer with bits b[0..31]
FromBits32(b) ==
  IF b[31] = 1 THEN (SumBits(b, 30) - 2147483647) - 1 ELSE SumBits(b, 30)

\* x << n on 32-bit integers: the shift count is taken modulo 32
Shl32(x, n) ==
  LET m == n % 32
  IN  FromBits32([k \in 0..31 |-> IF k >= m THEN Bit32(x, k - m) ELSE 0])

\* x | y on 32-bit integers
Or32(x, y) ==
  FromBits32([k \in 0..31 |-> IF Bit32(x, k) = 1 \/ Bit32(y, k) = 1 THEN 1 ELSE 0])

(***************************************************************************)
(* Base64URL codec                                                         *)
(***************************************************************************)
\* B64ChrByIdx.get(i) is B64ChrByIdx[i + 1]
B64ChrByIdx == UpperSeq \o LowerSeq \o DigitSeq \o <<"-","_">>

B64Set == Range(B64ChrByIdx)

\* B64IdxByChr.get(c)! << n : a character outside the alphabet gives
\* undefined, and undefined << n is 0
B64IdxByChr(c) == IF c \in B64Set THEN IndexOf(B64ChrByIdx, c) - 1 ELSE 0

RECURSIVE b64Fold(_, _, _)
b64Fold(rev, e, i) ==
  IF e > Len(rev) THEN i
  ELSE b64Fold(rev, e + 1, Or32(i, Shl32(B64IdxByChr(rev[e]), (e - 1) * 6)))

Reverse(s) == [i \in 1..Len(s) |-> s[Len(s) + 1 - i]]

b64ToInt(s) ==
  IF Len(s) = 0 THEN [st |-> "DecodeError", n |-> 0]
  ELSE [st |-> "ok", n |-> b64Fold(Reverse(s), 1, 0)]

RECURSIVE intToB64Loop(_, _, _)
\* the loop for i = hi * 2^30 + lo: i % 64 is lo % 64, and Math.floor(i / 64)
\* is (hi \div 64) * 2^30 + (hi % 64) * 2^24 + lo \div 64
intToB64Loop(hi, lo, out) ==
  LET o == <<B64ChrByIdx[(lo % 64) + 1]>> \o out
      jhi == hi \div 64
      jlo == (hi % 64) * Pow(2, 24) + lo \div 64
  IN  IF jhi = 0 /\ jlo = 0 THEN o ELSE intToB64Loop(jhi, jlo, o)

\* i is a JavaScript number.  For NaN and for a negative i the loop never
\* reaches i == 0: the call does not return ("Hang").
intToB64(i, l) ==
  IF l = 0 THEN [st |-> "ok", s |-> <<>>]
  ELSE IF i.nan \/ i.n < 0 THEN [st |-> "Hang", s |-> <<>>]
  ELSE LET out == intToB64Loop(HiOf(i), i.n, <<>>)
       IN  [st |-> "ok", s |-> Repeat("A", l - Len(out)) \o out]

RECURSIVE HexDigits(_)
HexDigits(n) ==
  IF n < 16 THEN <<HexSeq[n + 1]>> ELSE HexDigits(n \div 16) \o <<HexSeq[(n % 16) + 1]>>

\* Number.prototype.toString(16)
toString16(v) ==
  IF v.nan THEN <<"N","a","N">>
  ELSE IF v.n < 0 THEN <<"-">> \o HexDigits(0 - v.n)
  ELSE HexDigits(v.n)

intToHexUnpadded(value, length) == toString16(value)

intToHex(value, length) == padStart(toString16(value), length, "0")


(***************************************************************************)
(* Version string codec                                                    *)
(***************************************************************************)
KERI == <<"K","E","R","I">>
ACDC == <<"A","C","D","C">>
JSON == <<"J","S","O","N">>
CBOR == <<"C","B","O","R">>
MGPK == <<"M","G","P","K">>

Protocols == {KERI, ACDC}
Serials   == {JSON, CBOR, MGPK}

\* the value of a capture group that took no part in the match, of a missing
\* key and of an omitted argument
Undefined == <<"undefined">>

Version(major, minor) == [major |-> major, minor |-> minor]
Vrsn_1_0 == Version(N(1), N(0))
Vrsn_2_0 == Version(N(2), N(0))

VER1FULLSPAN == 17
VER1TERM == "_"
VER2FULLSPAN == 16
VER2TERM == "."

UpperSet == Range(UpperSeq)
HexSet   == Range(HexSeq)

AllIn(s, from, to, set) == \A i \in from..to : s[i] \in set

\* VEREX1 matches the text s at position p
VEREX1(s, p) ==
  /\ p + 16 <= Len(s)
  /\ AllIn(s, p, p + 3, UpperSet)
  /\ s[p + 4] \in HexSet
  /\ s[p + 5] \in HexSet
  /\ AllIn(s, p + 6, p + 9, UpperSet)
  /\ AllIn(s, p + 10, p + 15, HexSet)
  /\ s[p + 16] = "_"

\* VEREX2 matches the text s at position p
VEREX2(s, p) ==
  /\ p + 15 <= Len(s)
  /\ AllIn(s, p, p + 3, UpperSet)
  /\ s[p + 4] \in B64Set
  /\ AllIn(s, p + 5, p + 6, B64Set)
  /\ AllIn(s, p + 7, p + 10, UpperSet)
  /\ AllIn(s, p + 11, p + 14, B64Set)
  /\ s[p + 15] = "."

Sub(s, from, to) == SubSeq(s, from, to)

\* Rever.exec(s): the leftmost match of VEREX2|VEREX1, VEREX2 tried first at
\* each position.  The result is the match array shifted by one: m[1] is
\* match[0], m[2..6] are the groups 1..5 (those of VEREX2) and m[7..11] the
\* groups 6..10 (those of VEREX1); the groups of the alternative that did
\* not match are undefined.  <<>> stands for null.
Rever(s) ==
  LET hits == { p \in 1..Len(s) : VEREX2(s, p) \/ VEREX1(s, p) }
  IN  IF hits = {} THEN <<>>
      ELSE LET p == CHOOSE q \in hits : \A r \in hits : q <= r
           IN  IF VEREX2(s, p)
               THEN << Sub(s, p, p + 15),
                       Sub(s, p, p + 3), Sub(s, p + 4, p + 4), Sub(s, p + 5, p + 6),
                       Sub(s, p + 7, p + 10), Sub(s, p + 11, p + 14),
                       Undefined, Undefined, Undefined, Undefined, Undefined >>
               ELSE << Sub(s, p, p + 16),
                       Undefined, Undefined, Undefined, Undefined, Undefined,
                       Sub(s, p, p + 3), Sub(s, p + 4, p + 4), Sub(s, p + 5, p + 5),
                       Sub(s, p + 6, p + 9), Sub(s, p + 10, p + 15) >>

HexVal(c) ==
  IF c \in HexSet THEN IndexOf(HexSeq, c) - 1
  ELSE 9 + IndexOf(<<"A","B","C","D","E","F">>, c)

IsHexDigit(c) == c \in HexSet \/ c \in {"A","B","C","D","E","F"}

RECURSIVE HexPrefix(_, _, _)
\* the value of the longest run of hexadecimal digits of s from position i,
\* or NaN when there is none
HexPrefix(s, i, acc) ==
  IF i > Len(s) \/ ~IsHexDigit(s[i]) THEN acc
  ELSE HexPrefix(s, i + 1, N((IF acc.nan THEN 0 ELSE acc.n) * 16 + HexVal(s[i])))

\* parseInt(s, 16): an optional sign, an optional 0x prefix, then the longest
\* run of hexadecimal digits; NaN when that run is empty
parseInt16(s) ==
  LET neg  == Len(s) >= 1 /\ s[1] = "-"
      t    == IF Len(s) >= 1 /\ s[1] \in {"-", "+"} THEN Tail(s) ELSE s
      u    == IF Len(t) >= 2 /\ t[1] = "0" /\ t[2] \in {"x", "X"}
              THEN Tail(Tail(t)) ELSE t
      v    == HexPrefix(u, 1, NaN)
  IN  IF v.nan THEN NaN ELSE IF neg THEN N(0 - v.n) ELSE v

\* a < k in JavaScript: false when a is NaN
Lt(a, k) == ~a.nan /\ a.n < k

Smellage(st, proto, vrsn, kind, size) ==
  [st |-> st, proto |-> proto, vrsn |-> vrsn, kind |-> kind, size |-> size]

InvalidVersionString ==
  Smellage("InvalidVersionString", Undefined, Version(NaN, NaN), Undefined, NaN)

\* reads groups 1..5 of the match array; numbers through b64ToInt
parseVersion1Matches(match) ==
  LET proto == match[2]
      major == b64ToInt(match[3])
      minor == b64ToInt(match[4])
      kind  == match[5]
      size  == b64ToInt(match[6])
  IN  IF proto \notin Protocols THEN InvalidVersionString
      ELSE IF major.st # "ok" THEN InvalidVersionString
      ELSE IF major.n < 2 THEN InvalidVersionString
      ELSE IF minor.st # "ok" THEN InvalidVersionString
      ELSE IF kind \notin Serials THEN InvalidVersionString
      ELSE IF size.st # "ok" THEN InvalidVersionString
      ELSE Smellage("ok", proto, Version(N(major.n), N(minor.n)), kind, N(size.n))

\* parseVersion2Matches without its check of the major version
parseVersion2MatchesAnyMajor(match) ==
  LET proto == match[2]
      major == parseInt16(match[3])
      minor == parseInt16(match[4])
      kind  == match[5]
      size  == parseInt16(match[6])
  IN  IF proto \notin Protocols THEN InvalidVersionString
      ELSE IF kind \notin Serials THEN InvalidVersionString
      ELSE Smellage("ok", proto, Version(major, minor), kind, size)

\* reads groups 1..5 of the match array; numbers through parseInt(s, 16),
\* which never throws
parseVersion2Matches(match) ==
  LET proto == match[2]
      major == parseInt16(match[3])
      minor == parseInt16(match[4])
      kind  == match[5]
      size  == parseInt16(match[6])
  IN  IF proto \notin Protocols THEN InvalidVersionString
      ELSE IF Lt(major, 2) THEN InvalidVersionString
      ELSE IF kind \notin Serials THEN InvalidVersionString
      ELSE Smellage("ok", proto, Version(major, minor), kind, size)

rematch(match) ==
  LET full == match[1]
  IN  IF Len(full) = VER2FULLSPAN /\ full[Len(full)] = VER2TERM
        THEN parseVersion2Matches(match)
      ELSE IF Len(full) = VER1FULLSPAN /\ full[Len(full)] = VER1TERM
        THEN parseVersion1Matches(match)
      ELSE InvalidVersionString

deversify(versionString) ==
  LET match == Rever(versionString)
  IN  IF match = <<>> THEN InvalidVersionString ELSE rematch(match)

VERRAWSIZE == 6

\* [st, s]: st is "ok", or "Hang" when an intToB64 call does not return
versify(protocol, version, kind, size) ==
  IF Lt(version.major, 2)
  THEN [st |-> "ok",
        s  |-> protocol \o intToHex(version.major, 0) \o intToHex(version.minor, 0)
               \o kind \o intToHex(size, VERRAWSIZE) \o <<VER1TERM>>]
  ELSE LET major == intToB64(version.major, 1)
           minor == intToB64(version.minor, 1)
           formattedSize == intToB64(size, VERRAWSIZE)
       IN  IF major.st # "ok" \/ minor.st # "ok" \/ formattedSize.st # "ok"
           THEN [st |-> "Hang", s |-> <<>>]
           ELSE [st |-> "ok",
                 s  |-> protocol \o major.s \o minor.s \o kind
                        \o formattedSize.s \o <<VER2TERM>>]


(***************************************************************************)
(* Text encoding, code tables, digests                                     *)
(***************************************************************************)
\* TextEncoder.encode / TextDecoder.decode on the ASCII texts used here
toBytes(s)   == [i \in 1..Len(s) |-> Ord(s[i])]
fromBytes(u) == [i \in 1..Len(u) |-> AsciiSeq[u[i] - 31]]

Sizeage(hs, ss, fs, ls) == [hs |-> hs, ss |-> ss, fs |-> fs, ls |-> ls]

\* Sizes.get(code) is Sizes[code] for code \in DOMAIN Sizes, else undefined
SizesLeadByte ==
  [c \in {"E", "F", "I", "H"} |->
     CASE c = "E" -> Sizeage(1, 0, 44, 0)
       [] c = "F" -> Sizeage(1, 0, 44, 0)
       [] c = "I" -> Sizeage(1, 0, 44, 0)
       [] c = "H" -> Sizeage(1, 0, 44, 1)]

Sizes ==
  [c \in {"E", "F", "I", "H"} |->
     CASE c = "E" -> Sizeage(1, 0, 44, 0)
       [] c = "F" -> Sizeage(1, 0, 44, 0)
       [] c = "I" -> Sizeage(1, 0, 44, 0)
       [] c = "H" -> Sizeage(1, 0, 44, 0)]

SAIDDex == [Blake3_256 |-> "E", Blake2b_256 |-> "F", SHA2_256 |-> "I", SHA3_256 |-> "H"]

\* the text of a derivation code: a code is "" or one character
CodeText(code) == IF code = "" THEN <<>> ELSE <<code>>

DigestLen == 32
HashMod   == 46337

RECURSIVE PowMod(_, _)
PowMod(b, e) ==
  IF e = 0 THEN 1
  ELSE IF e % 2 = 0 THEN Let(PowMod(b, e \div 2), LAMBDA h : (h * h) % HashMod)
  ELSE (b * PowMod(b, e - 1)) % HashMod

RECURSIVE HashRange(_, _, _, _)
\* the polynomial sum of ser[lo..hi] with multiplier mult, modulo HashMod
HashRange(ser, lo, hi, mult) ==
  IF lo > hi THEN 0
  ELSE IF lo = hi THEN ser[lo] + 1
  ELSE LET mid == (lo + hi) \div 2
       IN  (HashRange(ser, lo, mid, mult) * PowMod(mult, hi - mid)
            + HashRange(ser, mid + 1, hi, mult)) % HashMod

HashAcc(ser, mult, salt) ==
  ((salt + Len(ser)) * PowMod(mult, Len(ser)) + HashRange(ser, 1, Len(ser), mult)) % HashMod

\* the 32 bytes made from two accumulators
DigestBytes(a, b, salt) ==
  [j \in 1..DigestLen |->
     ((IF j % 2 = 1 THEN a ELSE b) \div (IF j % 4 < 2 THEN 256 ELSE 1) + salt * j) % 256]

\* A digest function: 32 bytes determined by the bytes of ser, a different
\* function for each algorithm.  The library's four digests are external;
\* what the model keeps of them is that they are functions of the byte
\* sequence with a 32-byte value, distinct on the distinct inputs considered.
DigestFn(salt, ser) ==
  Let(<<HashAcc(ser, 251, salt), HashAcc(ser, 241, salt)>>,
      LAMBDA a : DigestBytes(a[1], a[2], salt))

\* DigestAlgoMap.get(code).fn
DigestAlgoMap ==
  [c \in {SAIDDex.Blake3_256, SAIDDex.Blake2b_256, SAIDDex.SHA2_256, SAIDDex.SHA3_256} |->
     CASE c = "E" -> 3
       [] c = "F" -> 2
       [] c = "I" -> 5
       [] c = "H" -> 11]

(***************************************************************************)
(* Mappings and their serializations                                       *)
(***************************************************************************)
StrVal(s) == [t |-> "str", s |-> s, n |-> 0]
NumVal(n) == [t |-> "num", s |-> <<>>, n |-> n]
UndefVal  == [t |-> "undefined", s |-> <<>>, n |-> 0]

Entry(k, v) == [k |-> k, v |-> v]

KeysOf(data) == { data[i].k : i \in DOMAIN data }

\* k in data
has(data, k) == k \in KeysOf(data)

\* data[k]
get(data, k) ==
  IF has(data, k) THEN data[CHOOSE i \in DOMAIN data : data[i].k = k].v ELSE UndefVal

\* data[k] = v : an existing key keeps its position, a new key goes last
set(data, k, v) ==
  IF has(data, k)
  THEN [i \in DOMAIN data |-> IF data[i].k = k THEN Entry(k, v) ELSE data[i]]
  ELSE Append(data, Entry(k, v))

RECURSIVE DecDigits(_)
DecDigits(n) ==
  IF n < 10 THEN <<DigitSeq[n + 1]>> ELSE DecDigits(n \div 10) \o <<DigitSeq[(n % 10) + 1]>>

JsonValue(v) ==
  IF v.t = "str" THEN <<"\"">> \o v.s \o <<"\"">> ELSE DecDigits(v.n)

RECURSIVE JsonEntries(_, _)
JsonEntries(data, i) ==
  IF i > Len(data) THEN <<>>
  ELSE (IF i > 1 THEN <<",">> ELSE <<>>)
       \o <<"\"", data[i].k, "\"", ":">> \o JsonValue(data[i].v)
       \o JsonEntries(data, i + 1)

\* JSON.stringify(data): the entries in insertion order, no white space
JSONstringify(data) == <<"{">> \o JsonEntries(data, 1) \o <<"}">>

\* CBOR: text string (major type 3) and unsigned integer (major type 0)
CborText(s) ==
  (IF Len(s) < 24 THEN <<96 + Len(s)>> ELSE <<120, Len(s)>>) \o toBytes(s)

CborValue(v) ==
  IF v.t = "str" THEN CborText(v.s)
  ELSE IF v.n < 24 THEN <<v.n>> ELSE <<24, v.n>>

RECURSIVE CborEntries(_, _)
CborEntries(data, i) ==
  IF i > Len(data) THEN <<>>
  ELSE CborText(<<data[i].k>>) \o CborValue(data[i].v) \o CborEntries(data, i + 1)

\* cbor.encode(data): a map (major type 5) of the entries in insertion order
cborEncode(data) == <<160 + Len(data)>> \o CborEntries(data, 1)

\* MessagePack: fixstr / str 8 and positive fixint
MgpkText(s) ==
  (IF Len(s) < 32 THEN <<160 + Len(s)>> ELSE <<217, Len(s)>>) \o toBytes(s)

MgpkValue(v) == IF v.t = "str" THEN MgpkText(v.s) ELSE <<v.n>>

RECURSIVE MgpkEntries(_, _)
MgpkEntries(data, i) ==
  IF i > Len(data) THEN <<>>
  ELSE MgpkText(<<data[i].k>>) \o MgpkValue(data[i].v) \o MgpkEntries(data, i + 1)

\* msgpack5().encode(data): a fixmap of the entries in insertion order
mgpkEncode(data) == <<128 + Len(data)>> \o MgpkEntries(data, 1)

\* [st, raw]
dumpBytes(data, kind) ==
  IF kind = JSON THEN [st |-> "ok", raw |-> toBytes(JSONstringify(data))]
  ELSE IF kind = CBOR THEN [st |-> "ok", raw |-> cborEncode(data)]
  ELSE IF kind = MGPK THEN [st |-> "ok", raw |-> mgpkEncode(data)]
  ELSE [st |-> "UnsupportedKind", raw |-> <<>>]


(***************************************************************************)
(* Objects                                                                 *)
(*                                                                         *)
(* A call works on two objects: the mapping the caller passed ("caller")   *)
(* and the one the call may create for itself ("own").  A heap holds the   *)
(* entries of both; a reference names one of them.  An assignment          *)
(* data[k] = v changes the object the reference data names.                *)
(***************************************************************************)
Heap(caller, own) == [caller |-> caller, own |-> own]

\* data = { ...data } : a new object with the entries of the old one
SpreadAlias(heap, ref) == [heap |-> heap, ref |-> ref]

Spread(heap, ref) == [heap |-> [heap EXCEPT !.own = heap[ref]], ref |-> "own"]

\* String(value), as RegExp.prototype.exec coerces its argument
ValText(v) ==
  IF v.t = "str" THEN v.s ELSE IF v.t = "num" THEN DecDigits(v.n) ELSE Undefined

(***************************************************************************)
(* Serialization dispatch                                                  *)
(***************************************************************************)
SizeifyResult(st, raw, proto, kind, heap, version) ==
  [st |-> st, raw |-> raw, proto |-> proto, kind |-> kind, heap |-> heap,
   version |-> version]

SizeifyFail(st, heap) == SizeifyResult(st, <<>>, Undefined, Undefined, heap, Version(NaN, NaN))

\* sizeify that deletes the version entry and adds it again as the last key
sizeifyMovesVersion(heap, ref, kind) ==
  LET data == heap[ref]
  IN  IF ~has(data, "v") THEN SizeifyFail("MissingVersionField", heap)
      ELSE
        Let(deversify(ValText(get(data, "v"))), LAMBDA sm :
          IF sm.st # "ok" THEN SizeifyFail(sm.st, heap)
          ELSE
            LET knd == IF kind = Undefined THEN sm.kind ELSE kind
            IN  Let(dumpBytes(data, knd), LAMBDA first :
                  IF first.st # "ok" THEN SizeifyFail(first.st, heap)
                  ELSE
                    Let(versify(sm.proto, sm.vrsn, knd, N(Len(first.raw))), LAMBDA vs :
                      IF vs.st # "ok" THEN SizeifyFail(vs.st, heap)
                      ELSE
                        LET rest   == SelectSeq(data, LAMBDA e : e.k # "v")
                            heap2  == [heap EXCEPT ![ref] = Append(rest, Entry("v", StrVal(vs.s)))]
                        IN  Let(dumpBytes(heap2[ref], knd), LAMBDA second :
                              SizeifyResult(second.st, second.raw, sm.proto, knd,
                                            heap2, sm.vrsn)))))

\* sizeify(data, kind) where data is the object heap[ref]; the returned data
\* is that same object, heap[ref] of the returned heap
sizeify(heap, ref, kind) ==
  LET data == heap[ref]
  IN  IF ~has(data, "v") THEN SizeifyFail("MissingVersionField", heap)
      ELSE
        Let(deversify(ValText(get(data, "v"))), LAMBDA sm :
          IF sm.st # "ok" THEN SizeifyFail(sm.st, heap)
          ELSE
            LET knd == IF kind = Undefined THEN sm.kind ELSE kind
            IN  Let(dumpBytes(data, knd), LAMBDA first :
                  IF first.st # "ok" THEN SizeifyFail(first.st, heap)
                  ELSE
                    Let(versify(sm.proto, sm.vrsn, knd, N(Len(first.raw))), LAMBDA vs :
                      IF vs.st # "ok" THEN SizeifyFail(vs.st, heap)
                      ELSE
                        LET heap2  == [heap EXCEPT ![ref] = set(data, "v", StrVal(vs.s))]
                        IN  Let(dumpBytes(heap2[ref], knd), LAMBDA second :
                              SizeifyResult(second.st, second.raw, sm.proto, knd,
                                            heap2, sm.vrsn)))))

\* [st, raw]
serialize(data, kind) ==
  Let(IF has(data, "v") THEN deversify(ValText(get(data, "v")))
      ELSE Smellage("ok", Undefined, Version(NaN, NaN), JSON, NaN),
      LAMBDA sm :
        IF sm.st # "ok" THEN [st |-> sm.st, raw |-> <<>>]
        ELSE dumpBytes(data, IF kind = Undefined THEN sm.kind ELSE kind))

(***************************************************************************)
(* Raw size, qualified encoding                                            *)
(***************************************************************************)
\* [st, n]
rawSizeKeepsCode(code) ==
  IF code = "" THEN [st |-> "EmptyCode", n |-> 0]
  ELSE IF code \notin DOMAIN Sizes THEN [st |-> "UnsupportedCode", n |-> 0]
  ELSE LET sizeage == Sizes[code]
           b64Size == sizeage.fs
       IN  IF sizeage.fs = -1 THEN [st |-> "VariableSizeUnsupported", n |-> 0]
           ELSE [st |-> "ok", n |-> ((b64Size * 3) \div 4) - sizeage.ls]

rawSize(code) ==
  IF code = "" THEN [st |-> "EmptyCode", n |-> 0]
  ELSE IF code \notin DOMAIN Sizes THEN [st |-> "UnsupportedCode", n |-> 0]
  ELSE LET sizeage == Sizes[code]
           cs == sizeage.hs + sizeage.ss
           b64Size == sizeage.fs - cs
       IN  IF sizeage.fs = -1 THEN [st |-> "VariableSizeUnsupported", n |-> 0]
           ELSE [st |-> "ok", n |-> ((b64Size * 3) \div 4) - sizeage.ls]

\* "ok" or the error thrown
validateRawSize(raw, code) ==
  LET rize == rawSize(code)
  IN  IF rize.st # "ok" THEN rize.st
      ELSE IF Len(SubSeq(raw, 1, rize.n)) # rize.n THEN "InsufficientRawBytes"
      ELSE "ok"

\* Base64URL text of a byte sequence, without trailing '=' characters: the
\* i-th character is the i-th group of 6 bits of the bytes, zero bits added
\* at the end
encodeBase64Url(u) ==
  LET byte(k) == IF k <= Len(u) THEN u[k] ELSE 0
      sextet(i) ==
        LET g == 3 * ((i - 1) \div 4)
            j == (i - 1) % 4
        IN  IF j = 0 THEN byte(g + 1) \div 4
            ELSE IF j = 1 THEN (byte(g + 1) % 4) * 16 + (byte(g + 2) \div 16)
            ELSE IF j = 2 THEN (byte(g + 2) % 16) * 4 + (byte(g + 3) \div 64)
            ELSE byte(g + 3) % 64
  IN  [i \in 1..((4 * Len(u) + 2) \div 3) |-> B64ChrByIdx[sextet(i) + 1]]

\* text.slice(ps)
sliceKeepsAll(text, ps) == text

slice(text, ps) == SubSeq(text, ps + 1, Len(text))

\* [st, b] : b is the byte text
qb64bUnchecked(raw, code) ==
  IF code \notin DOMAIN Sizes THEN [st |-> "UnsupportedCode", b |-> <<>>]
  ELSE LET sizeage == Sizes[code]
           rs == Len(raw)
           ps == (3 - ((rs + sizeage.ls) % 3)) % 3
           prepad == Repeat(0, ps + sizeage.ls)
           combined == prepad \o raw
           text == encodeBase64Url(combined)
       IN  [st |-> "ok", b |-> toBytes(CodeText(code) \o slice(text, ps))]

qb64b(raw, code) ==
  IF code \notin DOMAIN Sizes THEN [st |-> "UnsupportedCode", b |-> <<>>]
  ELSE LET sizeage == Sizes[code]
           cs == sizeage.hs + sizeage.ss
           rs == Len(raw)
           ps == (3 - ((rs + sizeage.ls) % 3)) % 3
           prepad == Repeat(0, ps + sizeage.ls)
           combined == prepad \o raw
           text == encodeBase64Url(combined)
       IN  IF cs % 4 # ps - sizeage.ls
           THEN [st |-> "InvalidCodeSizeForPadding", b |-> <<>>]
           ELSE [st |-> "ok",
                 b  |-> toBytes(CodeText(code) \o slice(text, ps))]

\* [st, s]
qb64(raw, code) ==
  Let(qb64b(raw, code), LAMBDA r : [st |-> r.st, s |-> fromBytes(r.b)])

(***************************************************************************)
(* SAID derivation and verification                                        *)
(***************************************************************************)
SAID_PAD_CHARACTER == "#"

\* the outcome of deriveSAIDBytes: the returned pair is (raw, heap[ref]);
\* heap.caller is the caller's mapping as the call leaves it
Derived(st, raw, heap, ref) == [st |-> st, raw |-> raw, heap |-> heap, ref |-> ref]

\* ''.padStart(fs, SAID_PAD_CHARACTER), the value written at the label
placeholderKeepsValue(data, label, fs) ==
  IF ValText(get(data, label)) # <<>> THEN ValText(get(data, label))
  ELSE padStart(<<>>, fs, SAID_PAD_CHARACTER)

\* a placeholder one character short
placeholderOneShort(data, label, fs) == padStart(<<>>, fs - 1, SAID_PAD_CHARACTER)

placeholder(data, label, fs) == padStart(<<>>, fs, SAID_PAD_CHARACTER)

\* deriveSAIDBytes from the digest lookup on, sz being what sizeify left
deriveSized(sz, r, code) ==
  IF sz.st # "ok" THEN Derived(sz.st, <<>>, sz.heap, r)
  ELSE IF code \notin DOMAIN DigestAlgoMap
    THEN Derived("UnsupportedCode", <<>>, sz.heap, r)
  ELSE
    Let(serialize(sz.heap[r], sz.kind), LAMBDA ser :
      IF ser.st # "ok" THEN Derived(ser.st, <<>>, sz.heap, r)
      ELSE
        Let(DigestFn(DigestAlgoMap[code], ser.raw), LAMBDA raw :
          LET vr == validateRawSize(raw, code)
          IN  IF vr # "ok" THEN Derived(vr, <<>>, sz.heap, r)
              ELSE Derived("ok", raw, sz.heap, r)))

\* deriveSAIDBytes from the clone on, for a mapping that holds the label
deriveFromClone(data, code, kind, label) ==
  LET sp == Spread(Heap(data, <<>>), "caller")
      h1 == sp.heap
      r  == sp.ref
  IN  IF code \notin DOMAIN Sizes THEN Derived("UnsupportedCode", <<>>, h1, r)
      ELSE
        LET algo == Sizes[code]
            h2 == [h1 EXCEPT ![r] = set(h1[r], label,
                     StrVal(placeholder(h1[r], label, algo.fs)))]
        IN  Let(IF has(h2[r], "v") THEN sizeify(h2, r, kind)
                ELSE SizeifyResult("ok", <<>>, Undefined, kind, h2, Version(NaN, NaN)),
                LAMBDA sz : deriveSized(sz, r, code))

deriveSAIDBytesUnchecked(data, code, kind, label) ==
  deriveFromClone(data, code, kind, label)

deriveSAIDBytes(data, code, kind, label) ==
  IF ~has(data, label) THEN Derived("MissingLabel", <<>>, Heap(data, <<>>), "caller")
  ELSE deriveFromClone(data, code, kind, label)

\* the outcome of saidify: the returned pair is (said, sad)
Saidified(st, said, sad, caller) ==
  [st |-> st, said |-> said, sad |-> sad, caller |-> caller]

saidifyKeepsPlaceholder(data, label, code, kind) ==
  Let(deriveSAIDBytes(data, code, kind, label), LAMBDA d :
    IF d.st # "ok" THEN Saidified(d.st, <<>>, <<>>, d.heap.caller)
    ELSE
      Let(qb64(d.raw, code), LAMBDA q :
        IF q.st # "ok" THEN Saidified(q.st, <<>>, <<>>, d.heap.caller)
        ELSE Saidified("ok", q.s, d.heap[d.ref], d.heap.caller)))

saidify(data, label, code, kind) ==
  Let(deriveSAIDBytes(data, code, kind, label), LAMBDA d :
    IF d.st # "ok" THEN Saidified(d.st, <<>>, <<>>, d.heap.caller)
    ELSE
      Let(qb64(d.raw, code), LAMBDA q :
        LET h == [d.heap EXCEPT ![d.ref] = set(d.heap[d.ref], label, StrVal(q.s))]
        IN  IF q.st # "ok" THEN Saidified(q.st, <<>>, <<>>, d.heap.caller)
            ELSE Saidified("ok", q.s, h[d.ref], h.caller)))

\* a === b for a stored value a and a text argument b (Undefined: omitted)
StrictEq(v, t) == v.t = "str" /\ t # Undefined /\ v.s = t

\* if (said): the argument is given and is not the empty text
Truthy(said) == said # Undefined /\ said # <<>>

\* the outcome of verify
Verified(st, ok, caller) == [st |-> st, ok |-> ok, caller |-> caller]

verifyComparesPlaceholder(sad, said, label, code, kind, prefixed, versioned) ==
  IF get(sad, label) = UndefVal THEN Verified("MissingDigestField", FALSE, sad)
  ELSE
    Let(deriveSAIDBytes(sad, code, kind, label), LAMBDA d :
      LET after == d.heap.caller      \* the object sad after the call
          derivedSad == d.heap[d.ref]
      IN  IF d.st # "ok" THEN Verified(d.st, FALSE, after)
          ELSE IF prefixed /\ ~StrictEq(get(after, label), said)
            THEN Verified("ok", FALSE, after)
          ELSE IF has(after, "v") /\ versioned /\ get(after, "v") # get(derivedSad, "v")
            THEN Verified("ok", FALSE, after)
          ELSE
            Let(qb64(d.raw, code), LAMBDA q :
              IF q.st # "ok" THEN Verified(q.st, FALSE, after)
              ELSE IF Truthy(said) THEN Verified("ok", StrVal(said) = get(derivedSad, label), after)
              ELSE Verified("ok", StrictEq(get(after, label), q.s), after)))

\* verify without the comparison made when prefixed is set
verifyIgnoresPrefixed(sad, said, label, code, kind, prefixed, versioned) ==
  IF get(sad, label) = UndefVal THEN Verified("MissingDigestField", FALSE, sad)
  ELSE
    Let(deriveSAIDBytes(sad, code, kind, label), LAMBDA d :
      LET after == d.heap.caller
          derivedSad == d.heap[d.ref]
      IN  IF d.st # "ok" THEN Verified(d.st, FALSE, after)
          ELSE IF has(after, "v") /\ versioned /\ get(after, "v") # get(derivedSad, "v")
            THEN Verified("ok", FALSE, after)
          ELSE
            Let(qb64(d.raw, code), LAMBDA q :
              IF q.st # "ok" THEN Verified(q.st, FALSE, after)
              ELSE IF Truthy(said) THEN Verified("ok", said = q.s, after)
              ELSE Verified("ok", StrictEq(get(after, label), q.s), after)))

verify(sad, said, label, code, kind, prefixed, versioned) ==
  IF get(sad, label) = UndefVal THEN Verified("MissingDigestField", FALSE, sad)
  ELSE
    Let(deriveSAIDBytes(sad, code, kind, label), LAMBDA d :
      LET after == d.heap.caller      \* the object sad after the call
          derivedSad == d.heap[d.ref]
      IN  IF d.st # "ok" THEN Verified(d.st, FALSE, after)
          ELSE IF prefixed /\ ~StrictEq(get(after, label), said)
            THEN Verified("ok", FALSE, after)
          ELSE IF has(after, "v") /\ versioned /\ get(after, "v") # get(derivedSad, "v")
            THEN Verified("ok", FALSE, after)
          ELSE
            Let(qb64(d.raw, code), LAMBDA q :
              IF q.st # "ok" THEN Verified(q.st, FALSE, after)
              ELSE IF Truthy(said) THEN Verified("ok", said = q.s, after)
              ELSE Verified("ok", StrictEq(get(after, label), q.s), after)))


(***************************************************************************)
(* Inputs                                                                  *)
(***************************************************************************)
MaxKeys == 2

Keys   == {"a", "d", "v"}
Labels == {"d", "a"}

\* the codes of the tables; the calls draw two of them (the four differ in
\* the digest function only) and one that is in no table
SupportedCodes == DOMAIN Sizes
Codes == {SAIDDex.Blake3_256, SAIDDex.SHA2_256, "X"}

\* the three serialization kinds and a tag that is none of them
YAML  == <<"Y","A","M","L">>
Kinds == Serials \cup {YAML}

\* "KERI10JSON000000_", "KERICAAJSONAAAA.", "KERIGAAJSONAAAA." and "x"
VText1 == KERI \o <<"1","0">> \o JSON \o <<"0","0","0","0","0","0","_">>
VText2 == KERI \o <<"C","A","A">> \o JSON \o <<"A","A","A","A",".">>
VTexts == {VText1, VText2, <<"x">>}

Vals(k) ==
  IF k = "v" THEN { StrVal(t) : t \in VTexts }
  ELSE { StrVal(<<>>), NumVal(1) }

Injective(f) == \A i, j \in DOMAIN f : f[i] = f[j] => i = j

KeySeqs == UNION { { f \in [1..n -> Keys] : Injective(f) } : n \in 0..MaxKeys }

\* the mappings with at most MaxKeys entries
Datas ==
  UNION { { [i \in DOMAIN ks |-> Entry(ks[i], vs[i])] :
              vs \in { f \in [DOMAIN ks -> UNION { Vals(k) : k \in Keys }] :
                         \A i \in DOMAIN ks : f[i] \in Vals(ks[i]) } } :
          ks \in KeySeqs }

\* the said argument of verify: omitted, empty, or a text that is no SAID
SaidArgs == {Undefined, <<>>, <<"x">>}

Swap(m, i) ==
  [j \in DOMAIN m |-> IF j = i THEN m[i + 1] ELSE IF j = i + 1 THEN m[i] ELSE m[j]]

Remove(m, i) == [j \in 1..(Len(m) - 1) |-> IF j < i THEN m[j] ELSE m[j + 1]]

\* the mappings one edit away from m that keep the entry of label as it is:
\* another value or another key for one other entry, two neighbours
\* exchanged, one entry added, one other entry removed
TamperVals == { StrVal(<<>>), NumVal(1), StrVal(VText1) }

Tampers(m, label) ==
  ({ [m EXCEPT ![i] = Entry(m[i].k, v)] :
      i \in { j \in DOMAIN m : m[j].k # label }, v \in TamperVals }
  \cup { [m EXCEPT ![i] = Entry(k, m[i].v)] :
      i \in { j \in DOMAIN m : m[j].k # label }, k \in Keys \ KeysOf(m) }
  \cup { Swap(m, i) : i \in 1..(Len(m) - 1) }
  \cup { Append(m, Entry(k, v)) : k \in Keys \ KeysOf(m), v \in TamperVals }
  \cup { Remove(m, i) : i \in { j \in DOMAIN m : m[j].k # label } }) \ {m}

(***************************************************************************)
(* Calls of the version codec and of the qualified encoders                *)
(***************************************************************************)
MaxMajor  == 3
MaxMinor  == 16
MaxRawLen == 35

Majors == 0..MaxMajor
Minors == 0..MaxMinor
SizeArgs == {0, 65, 255, Pow(16, VERRAWSIZE) - 1, Pow(16, VERRAWSIZE)}

\* the byte sequence of length n whose i-th byte is (a * i + b) mod 256
RawBytes(n, a, b) == [i \in 1..n |-> (a * i + b) % 256]

RawLens == (DigestLen - 1)..MaxRawLen
Raws == { RawBytes(n, a, b) : n \in RawLens, a \in {0, 1, 85, 255}, b \in {0, 255} }

VARIABLES
  vop,                      \* the last call of the version codec
  vprotocol, vmajor, vminor, vkind, vsize,   \* the arguments of versify
  vtext,                    \* what versify left: [st, s]
  vout                      \* what deversify left

verVars == <<vop, vprotocol, vmajor, vminor, vkind, vsize, vtext, vout>>

VARIABLES
  qop,          \* the last call of an encoder
  qraw, qcode,  \* its arguments
  qout          \* what it left: [st, val]

qbVars == <<qop, qraw, qcode, qout>>

NoText == [st |-> "none", s |-> <<>>]
NoSmellage == Smellage("none", Undefined, Version(NaN, NaN), Undefined, NaN)
NoQual == [st |-> "none", val |-> <<>>]

VersionIdle ==
  /\ vop = "none" /\ vprotocol = KERI /\ vmajor = 1 /\ vminor = 0
  /\ vkind = JSON /\ vsize = 0 /\ vtext = NoText /\ vout = NoSmellage

QualIdle == qop = "none" /\ qraw = <<>> /\ qcode = "E" /\ qout = NoQual

VARIABLES
  bop,          \* the last call of the Base64 integer codec
  bi, bl,       \* the arguments of intToB64
  btext,        \* what intToB64 left: [st, s]
  bs,           \* the argument of b64ToInt
  bout          \* what b64ToInt left: [st, n]

b64Vars == <<bop, bi, bl, btext, bs, bout>>

NoInt == [st |-> "none", n |-> 0]

B64Idle ==
  /\ bop = "none" /\ bi = N(0) /\ bl = 1 /\ btext = NoText /\ bs = <<>> /\ bout = NoInt

VARIABLES
  tpc,          \* the position of a running call
  top,          \* the operation called
  tdata, tkind, \* its arguments
  tq,           \* the intToB64 calls versify has still to make: [i, l]
  ti, tl, tout, \* the variables i, l and out of the running intToB64
  todd,         \* whether that call has made an odd number of iterations
  tres,         \* the texts the intToB64 calls have returned
  tplan         \* what the straight-line code of the call does with the
                \* arguments: a function of them, fixed when the call is made

termVars == <<tpc, top, tdata, tkind, tq, ti, tl, tout, todd, tres, tplan>>

NoPlan == [next |-> "failed", calls |-> <<>>, end |-> "failed"]

TermIdle ==
  /\ tpc = "idle" /\ top = "none" /\ tdata = <<>> /\ tkind = JSON
  /\ tq = <<>> /\ ti = N(0) /\ tl = 1 /\ tout = <<>> /\ todd = FALSE /\ tres = <<>>
  /\ tplan = NoPlan

(***************************************************************************)
(* A caller's session with the SAID operations                             *)
(***************************************************************************)
VARIABLES
  op,         \* the operation of the last call
  data,       \* the mapping passed to it, as it was before the call
  label, code, kind,
  said,       \* the said argument of verify (Undefined: omitted)
  prefixed, versioned,
  out,        \* what the call left: status, results, the caller's mapping
  prev        \* the saidify call a follow-up call builds on

Out(st, rsaid, rsad, raw, ok, caller) ==
  [st |-> st, said |-> rsaid, sad |-> rsad, raw |-> raw, ok |-> ok, caller |-> caller]

NoOut == Out("none", <<>>, <<>>, <<>>, FALSE, <<>>)

Call(o, d, l, c, k, r) ==
  [op |-> o, data |-> d, label |-> l, code |-> c, kind |-> k, out |-> r]

NoCall == Call("none", <<>>, "d", "E", JSON, NoOut)

Here == Call(op, data, label, code, kind, out)

saidVars == <<op, data, label, code, kind, said, prefixed, versioned, out, prev>>

InitSaid ==
  /\ op = "none" /\ data = <<>> /\ label = "d" /\ code = "E" /\ kind = JSON
  /\ said = Undefined /\ prefixed = FALSE /\ versioned = FALSE
  /\ out = NoOut /\ prev = NoCall

CallSaidify(name, d, l, c, k, p) ==
  \E r \in {saidify(d, l, c, k)} :
    /\ op' = name /\ data' = d /\ label' = l /\ code' = c /\ kind' = k
    /\ said' = Undefined /\ prefixed' = FALSE /\ versioned' = FALSE
    /\ out' = Out(r.st, r.said, r.sad, <<>>, FALSE, r.caller)
    /\ prev' = p
    /\ UNCHANGED <<verVars, qbVars, b64Vars, termVars>>

CallDerive(name, d, c, k, l, p) ==
  \E r \in {deriveSAIDBytes(d, c, k, l)} :
    /\ op' = name /\ data' = d /\ label' = l /\ code' = c /\ kind' = k
    /\ said' = Undefined /\ prefixed' = FALSE /\ versioned' = FALSE
    /\ out' = IF r.st = "ok"
              THEN Out("ok", <<>>, r.heap[r.ref], r.raw, FALSE, r.heap.caller)
              ELSE Out(r.st, <<>>, <<>>, <<>>, FALSE, r.heap.caller)
    /\ prev' = p
    /\ UNCHANGED <<verVars, qbVars, b64Vars, termVars>>

CallVerify(name, d, s, l, c, k, pf, vs, p) ==
  \E r \in {verify(d, s, l, c, k, pf, vs)} :
    /\ op' = name /\ data' = d /\ label' = l /\ code' = c /\ kind' = k
    /\ said' = s /\ prefixed' = pf /\ versioned' = vs
    /\ out' = Out(r.st, <<>>, <<>>, <<>>, r.ok, r.caller)
    /\ prev' = p
    /\ UNCHANGED <<verVars, qbVars, b64Vars, termVars>>

\* sizeify(d, k): the returned tuple is (raw, proto, kind, sad, version), sad
\* being the object that was passed
CallSizeify(name, d, k) ==
  \E r \in {sizeify(Heap(d, <<>>), "caller", k)} :
    /\ op' = name /\ data' = d /\ label' = "d" /\ code' = "E" /\ kind' = k
    /\ said' = Undefined /\ prefixed' = FALSE /\ versioned' = FALSE
    /\ out' = IF r.st = "ok"
              THEN [st |-> "ok", said |-> <<>>, sad |-> r.heap.caller, raw |-> r.raw,
                    ok |-> FALSE, caller |-> r.heap.caller,
                    proto |-> r.proto, kind |-> r.kind, version |-> r.version]
              ELSE Out(r.st, <<>>, <<>>, <<>>, FALSE, r.heap.caller)
    /\ prev' = NoCall
    /\ UNCHANGED <<verVars, qbVars, b64Vars, termVars>>

\* no call made yet
Idle == op = "none"

Saidify ==
  /\ Idle
  /\ \E d \in Datas, l \in Labels, c \in Codes, k \in Kinds :
       CallSaidify("saidify", d, l, c, k, NoCall)

DeriveSAIDBytes ==
  /\ Idle
  /\ \E d \in Datas, l \in Labels, c \in Codes, k \in Kinds :
       CallDerive("deriveSAIDBytes", d, c, k, l, NoCall)

\* the kind argument may be omitted
Sizeify ==
  /\ Idle
  /\ \E d \in Datas, k \in Kinds \cup {Undefined} : CallSizeify("sizeify", d, k)

Verify ==
  /\ Idle
  /\ \E d \in Datas, s \in SaidArgs, l \in Labels, c \in Codes, k \in Kinds :
       \E pf \in BOOLEAN, vs \in BOOLEAN :
         CallVerify("verify", d, s, l, c, k, pf, vs, NoCall)

\* the caller drops the results and starts over
Forget ==
  /\ ~Idle
  /\ op' = "none" /\ data' = <<>> /\ label' = "d" /\ code' = "E" /\ kind' = JSON
  /\ said' = Undefined /\ prefixed' = FALSE /\ versioned' = FALSE
  /\ out' = NoOut /\ prev' = NoCall
  /\ UNCHANGED <<verVars, qbVars, b64Vars, termVars>>

HasSaidified == op = "saidify" /\ out.st = "ok"

\* verify on the sad that saidify returned
VerifySad ==
  /\ HasSaidified
  /\ \E s \in SaidArgs \cup {out.said}, pf \in BOOLEAN, vs \in BOOLEAN :
       CallVerify("verifySad", out.sad, s, label, code, kind, pf, vs, Here)

\* verify on the mapping that was given to saidify
VerifyOriginal ==
  /\ HasSaidified
  /\ CallVerify("verifyOriginal", data, out.said, label, code, kind, FALSE, FALSE, Here)

\* saidify again with another value stored at the label
SaidifyRelabelled ==
  /\ op = "saidify" /\ has(data, label)
  /\ \E v \in (Vals(label) \cup {StrVal(out.said)}) \ {get(data, label)} :
       CallSaidify("saidifyRelabelled", set(data, label, v), label, code, kind, Here)

\* saidify and verify on a sad that was edited after saidify
SaidifyTampered ==
  /\ HasSaidified
  /\ \E t \in Tampers(out.sad, label) :
       CallSaidify("saidifyTampered", t, label, code, kind, Here)

VerifyTampered ==
  /\ HasSaidified
  /\ \E t \in Tampers(out.sad, label) :
       CallVerify("verifyTampered", t, out.said, label, code, kind, FALSE, FALSE, Here)

vars == <<saidVars, verVars, qbVars, b64Vars, termVars>>

Init == InitSaid /\ VersionIdle /\ QualIdle /\ B64Idle /\ TermIdle

Next ==
  \/ Saidify
  \/ DeriveSAIDBytes
  \/ Sizeify
  \/ Verify
  \/ VerifySad
  \/ VerifyOriginal
  \/ SaidifyRelabelled
  \/ SaidifyTampered
  \/ VerifyTampered
  \/ Forget

Spec == Init /\ [][Next]_vars

(***************************************************************************)
(* The version codec applied to drawn arguments                            *)
(***************************************************************************)
InitVersion ==
  /\ InitSaid /\ QualIdle /\ B64Idle /\ TermIdle
  /\ vop = "none"
  /\ vprotocol \in Protocols /\ vkind \in Serials
  /\ vmajor \in Majors /\ vminor \in Minors /\ vsize \in SizeArgs
  /\ vtext = NoText /\ vout = NoSmellage

Versify ==
  /\ vop = "none"
  /\ vop' = "versify"
  /\ vtext' = versify(vprotocol, Version(N(vmajor), N(vminor)), vkind, N(vsize))
  /\ UNCHANGED <<vprotocol, vmajor, vminor, vkind, vsize, vout, saidVars, qbVars, b64Vars, termVars>>

\* deversify on the string that versify returned
Deversify ==
  /\ vop = "versify" /\ vtext.st = "ok"
  /\ vop' = "deversify"
  /\ vout' = deversify(vtext.s)
  /\ UNCHANGED <<vprotocol, vmajor, vminor, vkind, vsize, vtext, saidVars, qbVars, b64Vars, termVars>>

NextVersion ==
  \/ Versify
  \/ Deversify

SpecVersion == InitVersion /\ [][NextVersion]_vars

(***************************************************************************)
(* deversify applied to drawn texts                                        *)
(***************************************************************************)
\* tags: the two protocols and the three kinds, and a tag that is neither
SmellProtos == Protocols \cup {<<"A","B","C","D">>}
SmellKinds  == Serials \cup {YAML}

\* the fields of texts of the 16-character shape
Smell2Majors == {"0", "1", "2", "B", "C", "G", "-"}
Smell2Minors == {<<"A","A">>, <<"0","a">>, <<"-","1">>, <<"z","z">>}
Smell2Sizes  == {<<"A","A","A","A">>, <<"A","A","B","B">>, <<"z","z","z","z">>}

\* the fields of texts of the 17-character shape
Smell1Majors == {"0", "1", "2", "a"}
Smell1Minors == {"0", "f"}
Smell1Sizes  == {<<"0","0","0","0","0","0">>, <<"0","0","0","0","f","f">>}

Smell2Texts ==
  { p \o <<mj>> \o mn \o k \o sz \o <<VER2TERM>> :
      p \in SmellProtos, mj \in Smell2Majors, mn \in Smell2Minors,
      k \in SmellKinds, sz \in Smell2Sizes }

Smell1Texts ==
  { p \o <<mj, mn>> \o k \o sz \o <<VER1TERM>> :
      p \in SmellProtos, mj \in Smell1Majors, mn \in Smell1Minors,
      k \in SmellKinds, sz \in Smell1Sizes }

\* texts with no version string in them: the empty text, one character, a
\* bare protocol tag, a text one character short, the terminators exchanged
SmellBare ==
  { <<>>, <<"x">>, KERI,
    KERI \o <<"C","A","A">> \o JSON \o <<"A","A","A",".">>,
    KERI \o <<"C","A","A">> \o JSON \o <<"A","A","A","A","_">>,
    KERI \o <<"1","0">> \o JSON \o <<"0","0","0","0","0","0",".">> }

\* each text alone, and with a character before it, after it, or both
SmellTexts ==
  { pre \o t \o post :
      pre \in {<<>>, <<"x">>}, t \in Smell1Texts \cup Smell2Texts \cup SmellBare,
      post \in {<<>>, <<"y">>} }

InitSmell ==
  /\ InitSaid /\ QualIdle /\ B64Idle /\ TermIdle
  /\ vop = "none" /\ vprotocol = KERI /\ vmajor = 1 /\ vminor = 0
  /\ vkind = JSON /\ vsize = 0
  /\ vtext \in { [st |-> "given", s |-> t] : t \in SmellTexts }
  /\ vout = NoSmellage

\* deversify on a text the caller supplies
DeversifyText ==
  /\ vop = "none" /\ vtext.st = "given"
  /\ vop' = "deversify"
  /\ vout' = deversify(vtext.s)
  /\ UNCHANGED <<vprotocol, vmajor, vminor, vkind, vsize, vtext, saidVars, qbVars, b64Vars, termVars>>

NextSmell == DeversifyText

SpecSmell == InitSmell /\ [][NextSmell]_vars

(***************************************************************************)
(* The qualified encoders applied to drawn arguments                       *)
(***************************************************************************)
InitQual ==
  /\ InitSaid /\ VersionIdle /\ B64Idle /\ TermIdle
  /\ qop = "none" /\ qraw \in Raws /\ qcode \in SupportedCodes \cup {"X", ""}
  /\ qout = NoQual

Qb64b ==
  /\ qop = "none"
  /\ qop' = "qb64b"
  /\ \E r \in {qb64b(qraw, qcode)} : qout' = [st |-> r.st, val |-> r.b]
  /\ UNCHANGED <<qraw, qcode, saidVars, verVars, b64Vars, termVars>>

Qb64 ==
  /\ qop = "none"
  /\ qop' = "qb64"
  /\ \E r \in {qb64(qraw, qcode)} : qout' = [st |-> r.st, val |-> r.s]
  /\ UNCHANGED <<qraw, qcode, saidVars, verVars, b64Vars, termVars>>

RawSize ==
  /\ qop = "none"
  /\ qop' = "rawSize"
  /\ \E r \in {rawSize(qcode)} : qout' = [st |-> r.st, val |-> r.n]
  /\ UNCHANGED <<qraw, qcode, saidVars, verVars, b64Vars, termVars>>

NextQual ==
  \/ Qb64b
  \/ Qb64
  \/ RawSize

SpecQual == InitQual /\ [][NextQual]_vars

(***************************************************************************)
(* The Base64 integer codec applied to drawn arguments                     *)
(***************************************************************************)
MaxDigits == 7
MaxHi == 63

\* integers from 0 to 64^6 - 1 = 63 * 2^30 + (2^30 - 1)
B64Ints ==
  { Wide(hi, lo) : hi \in {0, 1, 2, MaxHi}, lo \in {0, 1, 63, 64, 4095, Pow(2, 30) - 1} }

\* texts in the alphabet, the empty text, and texts with a character that is
\* not in the alphabet
B64Texts ==
  { <<>>, <<"A">>, <<"B", "A">>, <<"_", "-">>, KERI,
    <<"!">>, <<"B", "=">>, <<" ", "B">>, <<"+", "/">> }

InitB64 ==
  /\ InitSaid /\ VersionIdle /\ QualIdle /\ TermIdle
  /\ bop = "none" /\ bi \in B64Ints /\ bl \in 0..MaxDigits
  /\ btext = NoText /\ bs = <<>> /\ bout = NoInt

IntToB64 ==
  /\ bop = "none"
  /\ bop' = "intToB64"
  /\ btext' = intToB64(bi, bl)
  /\ UNCHANGED <<bi, bl, bs, bout, saidVars, verVars, qbVars, termVars>>

\* b64ToInt on the text that intToB64 returned
B64ToIntBack ==
  /\ bop = "intToB64" /\ btext.st = "ok"
  /\ bop' = "b64ToIntBack"
  /\ bs' = btext.s
  /\ bout' = b64ToInt(btext.s)
  /\ UNCHANGED <<bi, bl, btext, saidVars, verVars, qbVars, termVars>>

B64ToInt ==
  /\ bop = "none"
  /\ bop' = "b64ToInt"
  /\ \E s \in B64Texts : bs' = s /\ bout' = b64ToInt(s)
  /\ UNCHANGED <<bi, bl, btext, saidVars, verVars, qbVars, termVars>>

NextB64 ==
  \/ IntToB64
  \/ B64ToIntBack
  \/ B64ToInt

SpecB64 == InitB64 /\ [][NextB64]_vars

(***************************************************************************)
(* A call that reaches sizeify, step by step                               *)
(*                                                                         *)
(* The steps are those between which the call can stay for ever: the       *)
(* iterations of the while loop of intToB64, which versify runs for the    *)
(* major, the minor and the size.  Everything else a call does is made of  *)
(* straight-line code and of loops over a text or a byte sequence.         *)
(***************************************************************************)
MaxLoopText == 8

TermLabel == "d"
TermCode  == SAIDDex.Blake3_256
TermOps   == {"saidify", "deriveSAIDBytes", "verify", "sizeify"}

\* texts that match VEREX2 or VEREX1 as a whole, with these characters in
\* the major and minor positions
TermMajors == {"1", "C", "G", "-"}
TermMinors == { <<"A", "A">>, <<"0", "0">>, <<"-", "1">>, <<"z", "z">> }
TermTexts ==
  { KERI \o <<mj>> \o mn \o JSON \o <<"A", "A", "A", "A", ".">> :
      mj \in TermMajors, mn \in TermMinors } \cup {VText1}

TermDatas ==
  { <<Entry(TermLabel, StrVal(<<>>)), Entry("v", StrVal(t))>> : t \in TermTexts }

\* the mapping sizeify works on: the caller's when sizeify is called
\* directly, else the copy in which deriveSAIDBytes has put the placeholder
TermWork(o, d) ==
  IF o = "sizeify" THEN d
  ELSE set(d, TermLabel, StrVal(placeholder(d, TermLabel, Sizes[TermCode].fs)))

\* how the call ends once versify has returned
TermOutcome(o, d, k) ==
  CASE o = "sizeify" -> sizeify(Heap(d, <<>>), "caller", k).st
    [] o = "saidify" -> saidify(d, TermLabel, TermCode, k).st
    [] o = "deriveSAIDBytes" -> deriveSAIDBytes(d, TermCode, k, TermLabel).st
    [] o = "verify" -> verify(d, Undefined, TermLabel, TermCode, k, FALSE, FALSE).st

\* next, calls: sizeify up to the call of versify, and versify up to its
\* first intToB64 (the branch for a major below 2 calls intToHex, which has
\* no loop); end: "returned" or "failed"
TermPlan(o, d, k) ==
  Let(<<deversify(ValText(get(TermWork(o, d), "v"))), dumpBytes(TermWork(o, d), k),
        TermOutcome(o, d, k)>>,
      LAMBDA r :
        LET sm == r[1]
            first == r[2]
            end == IF r[3] = "ok" THEN "returned" ELSE "failed"
        IN  IF sm.st # "ok" \/ first.st # "ok"
              THEN [next |-> "failed", calls |-> <<>>, end |-> end]
            ELSE IF Lt(sm.vrsn.major, 2)
              THEN [next |-> "rest", calls |-> <<>>, end |-> end]
            ELSE [next |-> "call",
                  calls |-> << [i |-> sm.vrsn.major, l |-> 1],
                               [i |-> sm.vrsn.minor, l |-> 1],
                               [i |-> N(Len(first.raw)), l |-> VERRAWSIZE] >>,
                  end |-> end])

InitTerm ==
  /\ InitSaid /\ VersionIdle /\ QualIdle /\ B64Idle
  /\ tpc = "start" /\ top \in TermOps /\ tdata \in TermDatas /\ tkind \in Serials
  /\ tq = <<>> /\ ti = N(0) /\ tl = 1 /\ tout = <<>> /\ todd = FALSE /\ tres = <<>>
  /\ tplan = TermPlan(top, tdata, tkind)

\* the checks that precede sizeify's deversify
Enter ==
  /\ tpc = "start"
  /\ tpc' = IF top # "sizeify" /\ ~has(tdata, TermLabel) THEN "failed"
            ELSE IF has(tdata, "v") THEN "sizeify"
            ELSE IF top = "sizeify" THEN "failed"
            ELSE "rest"
  /\ UNCHANGED <<top, tdata, tkind, tq, ti, tl, tout, todd, tres, tplan>>
  /\ UNCHANGED <<saidVars, verVars, qbVars, b64Vars>>

\* deversify, dumpBytes and the entry of versify
SizeifyStart ==
  /\ tpc = "sizeify"
  /\ tpc' = tplan.next
  /\ tq' = tplan.calls
  /\ UNCHANGED <<top, tdata, tkind, ti, tl, tout, todd, tres, tplan>>
  /\ UNCHANGED <<saidVars, verVars, qbVars, b64Vars>>

\* intToB64(i, l) is entered: out = ''
CallIntToB64 ==
  /\ tpc = "call" /\ tq # <<>>
  /\ tpc' = "loop"
  /\ ti' = Head(tq).i /\ tl' = Head(tq).l /\ tout' = <<>> /\ todd' = FALSE
  /\ tq' = Tail(tq)
  /\ UNCHANGED <<top, tdata, tkind, tres, tplan>>
  /\ UNCHANGED <<saidVars, verVars, qbVars, b64Vars>>

\* B64ChrByIdx.get(i % 64) + '': i % 64 has the sign of i, and the map has
\* the keys 0..63 only (-0 is the key 0)
B64Chr(i) ==
  IF i.nan \/ (i.n < 0 /\ i.n % 64 # 0) THEN "undefined"
  ELSE B64ChrByIdx[(i.n % 64) + 1]

\* Math.floor(i / 64)
Floor64(i) == IF i.nan THEN NaN ELSE N(i.n \div 64)

\* of a text longer than MaxLoopText only the first MaxLoopText elements
\* are kept
Keep(t) == IF Len(t) > MaxLoopText THEN SubSeq(t, 1, MaxLoopText) ELSE t

\* the test of the while loop and, when l != 0, one iteration
LoopIter ==
  /\ tpc = "loop"
  /\ IF tl = 0
       THEN tpc' = "pad" /\ UNCHANGED <<ti, tout, todd>>
       ELSE /\ tout' = Keep(<<B64Chr(ti)>> \o tout)
            /\ todd' = ~todd
            /\ ti' = Floor64(ti)
            /\ tpc' = IF ~ti'.nan /\ ti'.n = 0 THEN "pad" ELSE "loop"
  /\ UNCHANGED <<top, tdata, tkind, tq, tl, tres, tplan>>
  /\ UNCHANGED <<saidVars, verVars, qbVars, b64Vars>>

\* the left padding with 'A', and the return
Pad ==
  /\ tpc = "pad"
  /\ tres' = Append(tres, Repeat("A", tl - Len(tout)) \o tout)
  /\ tpc' = IF tq = <<>> THEN "rest" ELSE "call"
  /\ UNCHANGED <<top, tdata, tkind, tq, ti, tl, tout, todd, tplan>>
  /\ UNCHANGED <<saidVars, verVars, qbVars, b64Vars>>

\* the rest of the call, from the return of versify on
Rest ==
  /\ tpc = "rest"
  /\ tpc' = tplan.end
  /\ UNCHANGED <<top, tdata, tkind, tq, ti, tl, tout, todd, tres, tplan>>
  /\ UNCHANGED <<saidVars, verVars, qbVars, b64Vars>>

NextTerm ==
  \/ Enter
  \/ SizeifyStart
  \/ CallIntToB64
  \/ LoopIter
  \/ Pad
  \/ Rest

\* a call that can take a step takes it
SpecTerm == InitTerm /\ [][NextTerm]_vars /\ WF_vars(NextTerm)

(***************************************************************************)
(* Properties of the SAID operations                                       *)
(***************************************************************************)
IsSaidify == op \in {"saidify", "saidifyRelabelled", "saidifyTampered"}

IsVerify == op \in {"verify", "verifySad", "verifyOriginal", "verifyTampered"}

\* a version string of either dialect, as the specification describes them
WellFormedPreamble(t) ==
  \/ /\ Len(t) = VER1FULLSPAN /\ VEREX1(t, 1)
     /\ Sub(t, 1, 4) \in Protocols /\ Sub(t, 7, 10) \in Serials
  \/ /\ Len(t) = VER2FULLSPAN /\ VEREX2(t, 1)
     /\ Sub(t, 1, 4) \in Protocols /\ Sub(t, 8, 11) \in Serials

\* arguments for which the specification describes no error
ValidInput(d, l, c, k) ==
  /\ has(d, l) /\ l # "v"
  /\ c \in SupportedCodes /\ k \in Serials
  /\ has(d, "v") => /\ get(d, "v").t = "str"
                    /\ WellFormedPreamble(get(d, "v").s)

C3_TamperEvident ==
  /\ (op = "saidifyTampered" /\ ValidInput(data, label, code, kind))
       => (out.st = "ok" /\ out.said # prev.out.said)
  /\ (op = "verifyTampered" /\ ValidInput(data, label, code, kind))
       => (out.st = "ok" /\ ~out.ok)

C5_CallerUnchanged ==
  (IsSaidify \/ IsVerify \/ op = "deriveSAIDBytes") => out.caller = data

C5_Witness ==
  /\ op = "saidify" /\ out.st = "ok"
  /\ out.sad # data /\ out.caller = data

\* C6: for a mapping without key v that holds the label, with a supported
\* code and kind, saidify returns (said, sad) where sad[label] = said, sad
\* has the keys of data in the same order and the same values elsewhere,
\* and said holds no placeholder character.
C6_SaidEmbedded ==
  (IsSaidify /\ has(data, label) /\ ~has(data, "v")
     /\ code \in SupportedCodes /\ kind \in Serials)
    => /\ out.st = "ok"
       /\ get(out.sad, label) = StrVal(out.said)
       /\ Len(out.sad) = Len(data)
       /\ \A i \in DOMAIN data :
            /\ out.sad[i].k = data[i].k
            /\ data[i].k # label => out.sad[i].v = data[i].v
       /\ SAID_PAD_CHARACTER \notin Range(out.said)

C6_Witness ==
  /\ op = "saidify" /\ out.st = "ok" /\ ~has(data, "v")
  /\ Len(data) = MaxKeys /\ data[1].k # label
  /\ get(out.sad, label) = StrVal(out.said)

\* C7: when the mapping does not hold the label, saidify and
\* deriveSAIDBytes fail with MissingLabel and produce no result, whatever
\* the code and the kind.
C7_MissingLabel ==
  ((IsSaidify \/ op = "deriveSAIDBytes") /\ ~has(data, label))
    => /\ out.st = "MissingLabel"
       /\ out.said = <<>> /\ out.sad = <<>> /\ out.raw = <<>>

C7_Witness ==
  /\ op = "deriveSAIDBytes" /\ ~has(data, label)
  /\ code \notin SupportedCodes /\ kind \notin Serials
  /\ out.st = "MissingLabel"

\* the value verify compares with the recomputed SAID
Compared == IF Truthy(said) THEN StrVal(said) ELSE get(data, label)

\* C8: when sad[label] is defined and the code is supported, verify returns
\* true or false, and false whenever the compared value differs from the
\* recomputed SAID; it fails with MissingDigestField exactly when
\* sad[label] is undefined.
C8_VerifyReturnsBoolean ==
  IsVerify =>
    /\ (get(data, label) # UndefVal /\ ValidInput(data, label, code, kind))
         => out.st = "ok"
    /\ (out.st = "ok"
          /\ Compared # StrVal(saidify(data, label, code, kind).said))
         => ~out.ok
    /\ (out.st = "MissingDigestField") <=> (get(data, label) = UndefVal)

(***************************************************************************)
(* Properties of the qualified encoders                                    *)
(***************************************************************************)
\* C2: for a supported code and a raw of rawSize(code) bytes, qb64 and qb64b
\* succeed and return 44 = fs(code) characters: the code character followed
\* by 43 characters of the Base64URL alphabet.
C2_QualifiedLength ==
  (qop \in {"qb64b", "qb64"} /\ qcode \in SupportedCodes
     /\ Len(qraw) = rawSize(qcode).n)
    => LET text == IF qop = "qb64b" THEN fromBytes(qout.val) ELSE qout.val
       IN  /\ qout.st = "ok"
           /\ Sizes[qcode].fs = 44
           /\ Len(qout.val) = Sizes[qcode].fs
           /\ text[1] = qcode
           /\ \A i \in 2..Len(text) : text[i] \in B64Set
           /\ qop = "qb64b" => qout.val = toBytes(text)

C2_Witness ==
  /\ qop = "qb64b" /\ qcode = "H" /\ qraw = RawBytes(DigestLen, 0, 255)
  /\ qout.st = "ok" /\ Len(qout.val) = 44

\* C14: rawSize(code) is floor((fs - (hs + ss)) * 3 / 4) - ls, which is 32
\* for each of E, F, I, H: the length of the raw that qb64b encodes into fs
\* characters.  It fails with EmptyCode for the empty code and with
\* UnsupportedCode for a non-empty code that is not in the table.
C14_RawSize ==
  qop = "rawSize" =>
    /\ qcode \in {"E", "F", "I", "H"} =>
         LET sz == Sizes[qcode]
         IN  /\ qout.st = "ok"
             /\ qout.val = (((sz.fs - (sz.hs + sz.ss)) * 3) \div 4) - sz.ls
             /\ qout.val = 32
             /\ Len(qb64b(RawBytes(qout.val, 1, 0), qcode).b) = sz.fs
    /\ qcode = "" => qout.st = "EmptyCode"
    /\ (qcode # "" /\ qcode \notin DOMAIN Sizes) => qout.st = "UnsupportedCode"

C14_Witness ==
  /\ qop = "rawSize" /\ qcode = "I" /\ qout.st = "ok" /\ qout.val = DigestLen

\* the net pad size qb64b computes for a raw of n bytes
PadSize(n, ls) == (3 - ((n + ls) % 3)) % 3

\* C18: Sizes and DigestAlgoMap have the same keys, E, F, I and H, and every
\* entry of Sizes has ss = 0, ls in {0, 1, 2}, fs a non-negative multiple of
\* 4, and (hs + ss) mod 4 = ps - ls for the pad size ps of a raw of
\* rawSize(code) bytes.
C18_TablesConsistent ==
  /\ DOMAIN Sizes = DOMAIN DigestAlgoMap
  /\ DOMAIN Sizes = {"E", "F", "I", "H"}
  /\ \A c \in DOMAIN Sizes :
       LET sz == Sizes[c]
       IN  /\ sz.ss = 0 /\ sz.ls \in {0, 1, 2}
           /\ sz.fs >= 0 /\ sz.fs % 4 = 0
           /\ rawSize(c).st = "ok"
           /\ (sz.hs + sz.ss) % 4 = PadSize(rawSize(c).n, sz.ls) - sz.ls
  /\ (qop = "rawSize" /\ qcode \in DOMAIN DigestAlgoMap) => qout.st = "ok"

C18_Witness ==
  /\ qop = "rawSize" /\ qcode = "H" /\ qout.st = "ok"
  /\ (Sizes[qcode].hs + Sizes[qcode].ss) % 4 = PadSize(qout.val, Sizes[qcode].ls)

\* C19: qb64b fails with UnsupportedCode when the code is not in the table;
\* otherwise it fails with InvalidCodeSizeForPadding exactly when
\* (hs + ss) mod 4 # ps - ls, which for the supported codes is exactly when
\* len(raw) mod 3 # 2.  A failing call returns no text.
C19_PaddingCheck ==
  qop = "qb64b" =>
    /\ qcode \notin DOMAIN Sizes => qout.st = "UnsupportedCode"
    /\ qcode \in DOMAIN Sizes =>
         LET sz == Sizes[qcode]
             bad == (sz.hs + sz.ss) % 4 # PadSize(Len(qraw), sz.ls) - sz.ls
         IN  /\ qout.st = IF bad THEN "InvalidCodeSizeForPadding" ELSE "ok"
             /\ bad <=> (Len(qraw) % 3 # 2)
    /\ qout.st # "ok" => qout.val = <<>>

C19_Witness ==
  /\ qop = "qb64b" /\ qcode = "I" /\ Len(qraw) = DigestLen + 1
  /\ qout.st = "InvalidCodeSizeForPadding" /\ qout.val = <<>>

\* C20: for a raw of any length and a supported code, qb64b fails or returns
\* exactly fs(code) characters, also when the raw is longer than
\* rawSize(code).
C20_QualifiedLengthOrFailure ==
  (qop = "qb64b" /\ qcode \in SupportedCodes)
    => (qout.st # "ok" \/ Len(qout.val) = Sizes[qcode].fs)

(***************************************************************************)
(* Properties of the version codec                                         *)
(***************************************************************************)
\* the arguments drawn are representable in the dialect their major selects
Representable ==
  \/ vmajor < 2 /\ vminor < 16 /\ vsize < Pow(16, 6)
  \/ vmajor \in 2..63 /\ vminor < Pow(64, 2) /\ vsize < Pow(64, 4)

\* C9: for representable arguments, in either dialect, versify returns a
\* string on which deversify succeeds and returns the protocol, version,
\* kind and size that were given.
C9_RoundTrip ==
  /\ (vop = "versify" /\ Representable) => vtext.st = "ok"
  /\ (vop = "deversify" /\ Representable)
       => vout = Smellage("ok", vprotocol, Version(N(vmajor), N(vminor)),
                          vkind, N(vsize))

\* the 6 lowercase hex digits of n
Hex6(n) == [i \in 1..6 |-> HexSeq[((n \div Pow(16, 6 - i)) % 16) + 1]]

\* C10: for major in {0, 1}, minor in 0..15 and size in 0..16^6-1, versify
\* returns protocol, one hex digit of major, one of minor, kind, the size as
\* 6 zero-padded lowercase hex digits and '_': 17 characters, such as
\* 'KERI10JSON000000_' and 'KERI10CBOR0000ff_'.
C10_VersifyDialect1 ==
  (vop # "none" /\ vmajor \in {0, 1} /\ vminor \in 0..15
     /\ vsize \in 0..(Pow(16, 6) - 1))
    => /\ vtext.st = "ok"
       /\ vtext.s = vprotocol \o <<HexSeq[vmajor + 1], HexSeq[vminor + 1]>>
                      \o vkind \o Hex6(vsize) \o <<"_">>
       /\ Len(vtext.s) = 17
       /\ (vprotocol = KERI /\ vmajor = 1 /\ vminor = 0 /\ vsize = 0 /\ vkind = JSON)
            => vtext.s = <<"K","E","R","I","1","0","J","S","O","N",
                           "0","0","0","0","0","0","_">>
       /\ (vprotocol = KERI /\ vmajor = 1 /\ vminor = 0 /\ vsize = 255 /\ vkind = CBOR)
            => vtext.s = <<"K","E","R","I","1","0","C","B","O","R",
                           "0","0","0","0","f","f","_">>

C10_Witness ==
  /\ vop = "versify" /\ vprotocol = KERI /\ vkind = CBOR
  /\ vmajor = 1 /\ vminor = 0 /\ vsize = 255
  /\ vtext.s = <<"K","E","R","I","1","0","C","B","O","R",
                 "0","0","0","0","f","f","_">>

\* the w Base64 digits of n, most significant first
B64Digits(n, w) == [i \in 1..w |-> B64ChrByIdx[((n \div Pow(64, w - i)) % 64) + 1]]

\* C11: for major in 2..63, minor in 0..4095 and size in 0..64^4-1, versify
\* returns protocol, major as 1 Base64 character, minor as 2, kind, the size
\* as 4 Base64 characters and '.': 16 characters, such as 'KERICAAJSONAAAA.'
\* for size 0 and 'KERICAAJSONAABB.' for size 65.
C11_VersifyDialect2 ==
  (vop # "none" /\ vmajor \in 2..63 /\ vminor \in 0..4095
     /\ vsize \in 0..(Pow(64, 4) - 1))
    => /\ vtext.st = "ok"
       /\ vtext.s = vprotocol \o B64Digits(vmajor, 1) \o B64Digits(vminor, 2)
                      \o vkind \o B64Digits(vsize, 4) \o <<VER2TERM>>
       /\ Len(vtext.s) = VER2FULLSPAN
       /\ (vprotocol = KERI /\ vmajor = 2 /\ vminor = 0 /\ vsize = 0 /\ vkind = JSON)
            => vtext.s = <<"K","E","R","I","C","A","A","J","S","O","N",
                           "A","A","A","A",".">>
       /\ (vprotocol = KERI /\ vmajor = 2 /\ vminor = 0 /\ vsize = 65 /\ vkind = JSON)
            => vtext.s = <<"K","E","R","I","C","A","A","J","S","O","N",
                           "A","A","B","B",".">>

(***************************************************************************)
(* Properties of the version entry                                         *)
(***************************************************************************)
RECURSIVE DigitsValue(_, _, _)
\* the number written by the digits t in the given base, digit values being
\* positions in alphabet
DigitsValue(t, alphabet, base) ==
  IF t = <<>> THEN 0
  ELSE DigitsValue(SubSeq(t, 1, Len(t) - 1), alphabet, base) * base
       + (IndexOf(alphabet, t[Len(t)]) - 1)

\* the size a version string states, as the specification lays the two
\* dialects out; -1 for a text that is a version string of neither
SizeField(t) ==
  IF Len(t) = VER1FULLSPAN /\ VEREX1(t, 1) THEN DigitsValue(Sub(t, 11, 16), HexSeq, 16)
  ELSE IF Len(t) = VER2FULLSPAN /\ VEREX2(t, 1)
    THEN DigitsValue(Sub(t, 12, 15), B64ChrByIdx, 64)
  ELSE -1

HasPreamble(d) == has(d, "v") /\ get(d, "v").t = "str" /\ WellFormedPreamble(get(d, "v").s)

\* C12: for a mapping whose v is a well-formed version string of either
\* dialect and a supported kind, sizeify returns (bytes, protocol, kind,
\* data', version) where bytes is the serialization of data' and the size
\* stated in data'.v is the length of bytes.
C12_SizeifyFinalSize ==
  (op = "sizeify" /\ HasPreamble(data) /\ kind \in Serials)
    => /\ out.st = "ok"
       /\ out.raw = dumpBytes(out.sad, kind).raw
       /\ get(out.sad, "v").t = "str"
       /\ SizeField(get(out.sad, "v").s) = Len(out.raw)

\* C13: for a mapping that holds the label and a well-formed version string
\* at v, saidify returns, and the size stated in sad.v is the byte length of
\* the serialization of the returned sad, the SAID having taken the place of
\* a placeholder of the same length.
C13_SaidifySizeStable ==
  (IsSaidify /\ has(data, label) /\ HasPreamble(data)
     /\ code \in SupportedCodes /\ kind \in Serials)
    => /\ out.st = "ok"
       /\ get(out.sad, "v").t = "str"
       /\ SizeField(get(out.sad, "v").s) = Len(dumpBytes(out.sad, kind).raw)
       /\ Len(out.said) = Sizes[code].fs

(***************************************************************************)
(* Properties of the Base64 integer codec                                  *)
(***************************************************************************)
\* C15: b64ToInt(s) fails with DecodeError when s is empty and when s holds
\* a character outside the 64-symbol alphabet; it returns no number then.
C15_DecodeError ==
  (bop = "b64ToInt" /\ (bs = <<>> \/ \E k \in DOMAIN bs : bs[k] \notin B64Set))
    => bout.st = "DecodeError"

\* the 32-bit integer k is the number w
SameNumber(k, w) ==
  k >= 0 /\ k \div Pow(2, 30) = HiOf(w) /\ k % Pow(2, 30) = w.n

\* C16: for every n from 0 to 64^6 - 1 and every minDigits >= 1,
\* b64ToInt(intToB64(n, minDigits)) = n, the digit values being the
\* positions in A..Z, a..z, 0..9, '-', '_'.
C16_B64RoundTrip ==
  /\ (bop = "b64ToIntBack" /\ bl >= 1) => (bout.st = "ok" /\ SameNumber(bout.n, bi))
  /\ \A k \in 0..63 : b64ToInt(<<B64ChrByIdx[k + 1]>>) = [st |-> "ok", n |-> k]
  /\ B64ChrByIdx[1] = "A" /\ B64ChrByIdx[26] = "Z" /\ B64ChrByIdx[27] = "a"
  /\ B64ChrByIdx[52] = "z" /\ B64ChrByIdx[53] = "0" /\ B64ChrByIdx[62] = "9"
  /\ B64ChrByIdx[63] = "-" /\ B64ChrByIdx[64] = "_"

(***************************************************************************)
(* Termination                                                             *)
(***************************************************************************)
\* C17: every call of saidify, deriveSAIDBytes, verify and sizeify on a
\* mapping whose v matches a version string pattern ends, by returning or
\* by failing with an error, and so do the versify, deversify, intToB64 and
\* b64ToInt calls made on the way.
C17_Terminates == <>(tpc \in {"returned", "failed"})


(***************************************************************************)
(* Properties of deversify on supplied texts                               *)
(***************************************************************************)
Smelled == vop = "deversify" /\ vtext.st = "given"

\* the whole text is one version string of the 17- or the 16-character shape
Dialect1Text(t) == Len(t) = VER1FULLSPAN /\ VEREX1(t, 1)
Dialect2Text(t) == Len(t) = VER2FULLSPAN /\ VEREX2(t, 1)

HexValue(t) == DigitsValue(t, HexSeq, 16)
B64Value(t) == DigitsValue(t, B64ChrByIdx, 64)

\* C21: whenever deversify returns for a text that is one version string,
\* the tuple holds the protocol and kind tags of the text unchanged and the
\* major, minor and size fields read as hexadecimal numbers for the
\* 17-character text ending in '_' and as Base64 numbers for the
\* 16-character text ending in '.'.
C21_DeversifyDispatch ==
  (Smelled /\ vout.st = "ok")
    => /\ Dialect1Text(vtext.s)
            => vout = Smellage("ok", Sub(vtext.s, 1, 4),
                               Version(N(HexValue(Sub(vtext.s, 5, 5))),
                                       N(HexValue(Sub(vtext.s, 6, 6)))),
                               Sub(vtext.s, 7, 10),
                               N(HexValue(Sub(vtext.s, 11, 16))))
       /\ Dialect2Text(vtext.s)
            => vout = Smellage("ok", Sub(vtext.s, 1, 4),
                               Version(N(B64Value(Sub(vtext.s, 5, 5))),
                                       N(B64Value(Sub(vtext.s, 6, 7)))),
                               Sub(vtext.s, 8, 11),
                               N(B64Value(Sub(vtext.s, 12, 15))))


\* a JavaScript number that is an integer not below zero
NonNegativeInteger(a) == ~a.nan /\ a.n >= 0

\* C22: deversify fails with InvalidVersionString on a text with no
\* structural match, with an unknown protocol tag or an unknown kind tag, and
\* every tuple it returns has a known protocol, a known kind, and a major, a
\* minor and a size that are non-negative integers.
C22_InvalidVersionString ==
  Smelled
    => /\ Rever(vtext.s) = <<>> => vout.st = "InvalidVersionString"
       /\ vout.st \in {"ok", "InvalidVersionString"}
       /\ vout.st = "ok"
            => /\ vout.proto \in Protocols
               /\ vout.kind \in Serials
               /\ NonNegativeInteger(vout.vrsn.major)
               /\ NonNegativeInteger(vout.vrsn.minor)
               /\ NonNegativeInteger(vout.size)

C30_WholeStringOnly ==
  (Smelled /\ ~(Dialect1Text(vtext.s) \/ Dialect2Text(vtext.s)))
    => vout.st = "InvalidVersionString"


(***************************************************************************)
(* Properties of verify with its flags                                     *)
(***************************************************************************)
\* the qualified SAID recomputed from the mapping verify was given
Recomputed == saidify(data, label, code, kind).said

C25_UnsetFlags ==
  (IsVerify /\ ~prefixed /\ ~versioned /\ get(data, label) # UndefVal
     /\ out.st = "ok")
    => out.ok = (IF said # Undefined THEN said = Recomputed
                 ELSE StrictEq(get(data, label), Recomputed))

\* the size stated by v is not the length of the serialization, v being of
\* fixed width and the label holding fs placeholder characters
StatesWrongSize ==
  SizeField(get(data, "v").s)
    # Len(dumpBytes(placeholder(data, label, Sizes[code].fs), kind))

\* C26: with versioned set, a sad with a well-formed v makes verify return
\* true or false; true only if v states the length of the serialization,
\* and false, not a failure, when v states a wrong size.
C26_VersionedVerify ==
  (IsVerify /\ versioned /\ get(data, label) # UndefVal
     /\ ValidInput(data, label, code, kind) /\ HasPreamble(data))
    => /\ out.st = "ok"
       /\ out.ok => ~StatesWrongSize
       /\ StatesWrongSize => ~out.ok


(***************************************************************************)
(* Properties of deriveSAIDBytes, intToB64 and sizeify                     *)
(***************************************************************************)
\* C27: when deriveSAIDBytes returns (raw, mutated), mutated[label] is fs
\* placeholder characters, mutated has the keys of data in the same order,
\* raw is the digest for the code of the serialization of mutated, and raw
\* has rawSize(code) bytes.
C27_DerivedShape ==
  (op = "deriveSAIDBytes" /\ out.st = "ok")
    => /\ get(out.sad, label) = StrVal(Repeat(SAID_PAD_CHARACTER, Sizes[code].fs))
       /\ Len(out.sad) = Len(data)
       /\ \A i \in DOMAIN data : out.sad[i].k = data[i].k
       /\ out.raw = DigestFn(DigestAlgoMap[code], serialize(out.sad, kind).raw)
       /\ Len(out.raw) = rawSize(code).n

C27_Witness ==
  /\ op = "deriveSAIDBytes" /\ out.st = "ok"
  /\ Len(data) = MaxKeys /\ data[1].k # label
  /\ get(data, label) = NumVal(1)

\* the base-64 digits of i = hi * 2^30 + lo without leading zeros, one digit
\* for 0; 2^30 is 64^5
DigitsOf(i) ==
  IF HiOf(i) > 0 THEN <<B64ChrByIdx[HiOf(i) + 1]>> \o B64Digits(i.n, 5)
  ELSE B64Digits(i.n, CHOOSE w \in 1..5 :
                        /\ i.n < Pow(64, w)
                        /\ w > 1 => i.n >= Pow(64, w - 1))

\* C28: for every non-negative integer and every minDigits >= 0, intToB64
\* returns the base-64 digits of the value, most significant first, padded
\* on the left with 'A' to max(minDigits, d) characters, d being the number
\* of digits of the value; no digit is dropped.
C28_IntToB64Digits ==
  bop \in {"intToB64", "b64ToIntBack"}
    => /\ btext.st = "ok"
       /\ btext.s = Repeat("A", bl - Len(DigitsOf(bi))) \o DigitsOf(bi)

=============================================================================
